---- MODULE Spec2Model ----
(***************************************************************************)
(* Piano roll editor (components/PianoRoll.tsx) with its playback and its  *)
(* MIDI writer (lib/midi.ts), and the playback of the grid editor          *)
(* (unnamed/part_002).                                                     *)
(*                                                                         *)
(* Numbers are JavaScript numbers holding non-negative integers below      *)
(* 2^31, where n >> k is n \div 2^k and n & (2^k - 1) is n % 2^k.          *)
(***************************************************************************)
EXTENDS Integers, Sequences, FiniteSets

VARIABLES
    notes,        \* useState<Note[]>: the note store, a sequence of notes
    selectedRef,  \* useRef: the id of the selected note, or NoId
    dragInfo,     \* useRef: the drag in progress, or NoDrag
    now,          \* Date.now(), the millisecond clock
    pendingReads, \* file.arrayBuffer() reads awaited by handleFileImport
    lastRead,     \* the bytes the last finished read delivered, NoRead if none
    alertMsg,     \* the last alert shown: its kind and the count it reports
    midiData,     \* the bytes returned by the last writeMidi call, <<>> before any
    callArgs,     \* the arguments of that call: [notes, ppq, bpm]
    vlqIn,        \* a delta handed to the variable-length writer
    vlqOut,       \* the bytes it wrote, <<>> before it ran
    isPlaying,    \* useState(false)
    cursorTick,   \* useState(0): the playhead, in ticks
    transportState, \* Tone.Transport.state: "started" or "stopped"
    transportTime,  \* Tone.Transport.seconds, in units of 1/2000 second
    scheduled,    \* the events of Tone.Transport.schedule that have not run
    timers,       \* the live setInterval timers, each the isPlaying its
                  \* callback closed over
    timelineRef,  \* useRef: the index in timers of the timer held, 0 for null
    polledAt,     \* the transport time at which the interval callback last
                  \* ran since playback started, -1 when it has not run
    selectedInstrument, \* useState('piano')
    samplesLoaded,      \* useState(false): the ready flag
    pendingLoads,       \* the setTimeout calls of the piano factory not yet due
    synthRef,     \* useRef: the instrument handle, disposed or not
    lastTrigger,  \* the last triggerAttack / triggerAttackRelease call
    state,        \* grid editor (part_002): useState<PianoRollState>
    playIntervalRef, \* grid editor: the index in gridTimers held, 0 for null
    gridTimers,   \* grid editor: the live setInterval timers, each the
                  \* stepDuration it was created with
    gridCall,     \* grid editor: the handler that ran last
    aiSuggestions,   \* grid editor: useState<AISuggestion[]>([])
    showSuggestions, \* grid editor: useState(false)
    gridSeq,      \* grid editor: the notes addNote has made, each with a
                  \* Math.random() of its own in its id
    lastCall,     \* the arguments and the bytes of the writeMidi call before
                  \* the last one
    snapIn,       \* a tick handed to the grid snapping
    snapOut,      \* the tick it gave, -1 before it ran
    scrollOffset  \* useState(24): the rows the key range is scrolled by

vars == <<notes, selectedRef, dragInfo, now, pendingReads, lastRead, alertMsg,
          midiData, callArgs, vlqIn, vlqOut,
          isPlaying, cursorTick, transportState, transportTime, scheduled,
          timers, timelineRef, polledAt,
          selectedInstrument, samplesLoaded, pendingLoads, synthRef, lastTrigger,
          state, playIntervalRef, gridTimers, gridCall,
          aiSuggestions, showSuggestions, gridSeq, lastCall, snapIn, snapOut,
          scrollOffset>>

editorVars == <<selectedRef, dragInfo, now, pendingReads, lastRead, alertMsg>>
writerVars == <<midiData, callArgs, lastCall>>
vlqVars == <<vlqIn, vlqOut>>
playVars == <<isPlaying, cursorTick, transportState, transportTime, scheduled,
              timers, timelineRef, polledAt>>
synthVars == <<selectedInstrument, samplesLoaded, pendingLoads, synthRef, lastTrigger>>
gridVars == <<state, playIntervalRef, gridTimers, gridCall,
              aiSuggestions, showSuggestions, gridSeq>>
snapVars == <<snapIn, snapOut>>

(***************************************************************************)
(* Program constants                                                       *)
(***************************************************************************)
PPQ == 480
BPM == 120

\* canvas geometry; zoom is held at its initial value
visibleBeats == 16
pianoWidth == 100
canvasWidth == 1200
canvasHeight == 400
keyCount == 36
zoom == 1
totalKeys == 88
topMidi == 108 - scrollOffset

(***************************************************************************)
(* Bounds of the model                                                     *)
(***************************************************************************)
\* most notes the editor's clicks put into the store
MaxStore == 2
\* last value of the millisecond clock
MaxNow == 1
\* longest note list handed to writeMidi
MaxNotes == 2
\* deltas 0..MaxSmallDelta are all tried by the variable-length writer
MaxSmallDelta == 300

\* longest file handed to the importer
MaxFileLen == 7

\* most ready-flag timeouts of piano factories that are pending at once
MaxLoads == 2

\* ticks 0..MaxSnapTick are all handed to the grid snapping
MaxSnapTick == 250

\* further deltas at the edges of the 2-, 3-, 4- and 5-byte encodings
EdgeDeltas == {16383, 16384, 2097151, 2097152, 268435455, 268435456, 2147483647}
DeltaSet == (0..MaxSmallDelta) \cup EdgeDeltas

\* fields of the notes handed to writeMidi
TickSet == {0, 120, 20000}
LengthSet == {120, 480}
MidiSet == {60, 64}
VelSet == {80, 200}
\* (ppq, bpm) pairs handed to writeMidi
ArgSet == {<<480, 120>>, <<120, 480>>, <<1, 60>>, <<65535, 200>>}

\* bytes of the imported files: 0x90 is a note-on status (and, read as a
\* pitch, above the range), 60 and 100 are in-range pitches and non-zero
\* velocities, 0 is a zero velocity (and a pitch below the range)
FileBytes == {0, 60, 100, 144}
Files == UNION {[1..n -> FileBytes] : n \in 0..MaxFileLen}

\* files imported in the editor: one note-on as the last three bytes, a zero
\* velocity, a pitch above the range in front of a good note-on, two note-ons
EditorFiles ==
    { <<144, 60, 100>>, <<144, 60, 0, 0>>, <<144, 144, 100, 0>>,
      <<144, 60, 100, 144, 100, 144, 0>> }

\* pointer positions on the canvas, in pixels from its top left corner:
\* x = 100, 118 are ticks 0, 125; y = 267 is inside the row of key
\* 60, y = 275 in the gap under it, y = 280 in the row of key 59
XSet == {100, 118}
YSet == {267, 275, 280}

NoArgs == [notes |-> <<>>, ppq |-> 0, bpm |-> 0]
\* writeMidi was not called twice yet
NoCall == [args |-> NoArgs, data |-> <<>>]
NoId == [kind |-> "none", at |-> 0, i |-> 0]
NoDrag == [isDragging |-> FALSE]
NoRead == <<256>>
NoAlert == [kind |-> "none", count |-> 0]

\* the state of the component when it is mounted
InitEditor ==
    /\ selectedRef = NoId
    /\ dragInfo = NoDrag
    /\ now = 0
    /\ pendingReads = 0
    /\ lastRead = NoRead
    /\ alertMsg = NoAlert

\* no trigger call was made yet
NoTrigger == [by |-> "none", instrument |-> "none", disposed |-> FALSE,
              loaded |-> FALSE]

\* playback when the component is mounted: nothing plays, the transport rests
InitPlay ==
    /\ isPlaying = FALSE
    /\ cursorTick = 0
    /\ transportState = "stopped"
    /\ transportTime = 0
    /\ scheduled = <<>>
    /\ timers = <<>>
    /\ timelineRef = 0
    /\ polledAt = -1

\* the instrument when the component is mounted: the effect on
\* selectedInstrument ran once, it built the piano, whose factory set a
\* timeout that will raise the ready flag
InitSynth ==
    /\ selectedInstrument = "piano"
    /\ samplesLoaded = FALSE
    /\ pendingLoads = 1
    /\ synthRef = [instrument |-> "piano", disposed |-> FALSE]
    /\ lastTrigger = NoTrigger

\* the grid editor when it is mounted
InitGrid ==
    /\ state = [notes |-> <<>>, isPlaying |-> FALSE, currentPosition |-> 0,
                bpm |-> 120]
    /\ playIntervalRef = 0
    /\ gridTimers = <<>>
    /\ gridCall = "none"
    /\ aiSuggestions = <<>>
    /\ showSuggestions = FALSE
    /\ gridSeq = 0

(***************************************************************************)
(* lib/midi.ts : writeMidi                                                 *)
(***************************************************************************)
writeUint32BE(n) ==
    << (n \div 16777216) % 256, (n \div 65536) % 256, (n \div 256) % 256, n % 256 >>

\* the two bytes in the wrong order
writeUint16LE(n) ==
    << n % 256, (n \div 256) % 256 >>

writeUint16BE(n) ==
    << (n \div 256) % 256, n % 256 >>

\* new TextEncoder().encode("MThd") and ("MTrk")
MThd == <<77, 84, 104, 100>>
MTrk == <<77, 84, 114, 107>>

headerChunk(ppq) ==
    MThd \o writeUint32BE(6) \o writeUint16BE(0) \o writeUint16BE(1) \o writeUint16BE(ppq)

\* Math.round(60000000 / bpm): the nearest integer, a half rounded up
mpq(bpm) ==
    (2 * 60000000 + bpm) \div (2 * bpm)

tempoEvent(bpm) ==
    [tick |-> 0,
     bytes |-> <<0, 255, 81, 3,
                 (mpq(bpm) \div 65536) % 256, (mpq(bpm) \div 256) % 256, mpq(bpm) % 256>>]

noteOn(n) ==
    [tick |-> n.tick, bytes |-> <<0, 144, n.midi % 128, n.vel % 128>>]

\* the release velocity taken from the note instead of the fixed 0x40
noteOffWithVel(n) ==
    [tick |-> n.tick + n.length, bytes |-> <<0, 128, n.midi % 128, n.vel % 128>>]

noteOff(n) ==
    [tick |-> n.tick + n.length, bytes |-> <<0, 128, n.midi % 128, 64>>]

\* notes.forEach: each note pushes its note-on, then its note-off
RECURSIVE noteEvents(_)
noteEvents(ns) ==
    IF ns = <<>> THEN <<>>
    ELSE <<noteOn(Head(ns)), noteOff(Head(ns))>> \o noteEvents(Tail(ns))

\* events before the sort: the tempo event, then the notes' events
events(ns, bpm) ==
    <<tempoEvent(bpm)>> \o noteEvents(ns)

\* e placed in front of the events of its own tick: a sort that is not stable
insertBeforeTies(s, e) ==
    LET k == Cardinality({i \in 1..Len(s) : s[i].tick < e.tick})
    IN  SubSeq(s, 1, k) \o <<e>> \o SubSeq(s, k + 1, Len(s))

\* e placed behind every event of s whose tick is not greater (s is sorted)
insertByTick(s, e) ==
    LET k == Cardinality({i \in 1..Len(s) : s[i].tick <= e.tick})
    IN  SubSeq(s, 1, k) \o <<e>> \o SubSeq(s, k + 1, Len(s))

\* the events left in insertion order
unsorted(evs) ==
    evs

\* events.sort((a, b) => a.tick - b.tick): Array.prototype.sort is stable
RECURSIVE sortByTick(_)
sortByTick(evs) ==
    IF evs = <<>> THEN <<>>
    ELSE insertByTick(sortByTick(SubSeq(evs, 1, Len(evs) - 1)), evs[Len(evs)])

\* do { vl.unshift(v & 0x7f); v = v >> 7 } while (v > 0)
RECURSIVE vlGroups(_)
vlGroups(v) ==
    IF v \div 128 > 0 THEN vlGroups(v \div 128) \o <<v % 128>>
    ELSE <<v % 128>>

\* the continuation bit set on the last group too
vlBytesAllFlagged(delta) ==
    LET vl == vlGroups(delta)
    IN  [i \in 1..Len(vl) |-> vl[i] + 128]

\* every group but the last is written with 0x80 set
vlBytes(delta) ==
    LET vl == vlGroups(delta)
    IN  [i \in 1..Len(vl) |-> IF i # Len(vl) THEN vl[i] + 128 ELSE vl[i]]

\* events.forEach: delta from lastTick, its bytes, then ev.bytes.slice(1)
RECURSIVE eventBytes(_, _)
eventBytes(evs, lastTick) ==
    IF evs = <<>> THEN <<>>
    ELSE vlBytes(Head(evs).tick - lastTick) \o Tail(Head(evs).bytes)
         \o eventBytes(Tail(evs), Head(evs).tick)

endOfTrack == <<0, 255, 47, 0>>

outBytes(ns, bpm) ==
    eventBytes(sortByTick(events(ns, bpm)), 0) \o endOfTrack

\* the length written before the end-of-track event was appended
trackChunkShortLength(ns, bpm) ==
    MTrk \o writeUint32BE(Len(outBytes(ns, bpm)) - 4) \o outBytes(ns, bpm)

trackChunk(ns, bpm) ==
    MTrk \o writeUint32BE(Len(outBytes(ns, bpm))) \o outBytes(ns, bpm)

\* a writer that keeps its output buffer from one call to the next
writeOntoLast(ns, ppq, bpm) ==
    midiData \o headerChunk(ppq) \o trackChunk(ns, bpm)

writeMidi(ns, ppq, bpm) ==
    headerChunk(ppq) \o trackChunk(ns, bpm)

(***************************************************************************)
(* Calls of writeMidi on note lists built from the field sets              *)
(***************************************************************************)
InitWrite ==
    /\ notes = <<>>
    /\ InitEditor
    /\ InitPlay
    /\ InitSynth
    /\ InitGrid
    /\ midiData = <<>>
    /\ callArgs = NoArgs
    /\ lastCall = NoCall
    /\ snapIn = 0
    /\ snapOut = -1
    /\ scrollOffset = 24
    /\ vlqIn = 0
    /\ vlqOut = <<>>

\* the caller appends a note to the list it will hand over
PushNote ==
    /\ midiData = <<>>
    /\ Len(notes) < MaxNotes
    /\ \E t \in TickSet, l \in LengthSet, m \in MidiSet, v \in VelSet :
         notes' = Append(notes, [id |-> [kind |-> "arg", at |-> 0, i |-> Len(notes)],
                                 tick |-> t, length |-> l, midi |-> m, vel |-> v])
    /\ UNCHANGED <<editorVars, writerVars, vlqVars,
                   playVars, synthVars, gridVars, snapVars, scrollOffset>>

CallWriteMidi ==
    /\ \E a \in ArgSet :
         /\ midiData' = writeMidi(notes, a[1], a[2])
         /\ callArgs' = [notes |-> notes, ppq |-> a[1], bpm |-> a[2]]
    /\ lastCall' = [args |-> callArgs, data |-> midiData]
    /\ UNCHANGED <<notes, editorVars, vlqVars,
                   playVars, synthVars, gridVars, snapVars, scrollOffset>>

NextWrite ==
    \/ PushNote
    \/ CallWriteMidi

SpecWrite == InitWrite /\ [][NextWrite]_vars

(***************************************************************************)
(* Reading a written file back: the standard's layout, read independently  *)
(* of the writer                                                           *)
(***************************************************************************)
\* bytes i..j of b, cut at the end of b
Slice(b, i, j) ==
    SubSeq(b, i, IF j > Len(b) THEN Len(b) ELSE j)

\* the big-endian number in the bytes of b
RECURSIVE BigEndian(_)
BigEndian(b) ==
    IF b = <<>> THEN 0 ELSE BigEndian(SubSeq(b, 1, Len(b) - 1)) * 256 + b[Len(b)]

\* the variable-length quantity at b[i]: its value and the index behind it
\* (-1 for a quantity of more than 31 bits)
RECURSIVE ReadVlq(_, _, _)
ReadVlq(b, i, acc) ==
    IF i > Len(b) THEN [val |-> acc, next |-> i]
    ELSE IF acc > 16777215 THEN [val |-> -1, next |-> Len(b) + 1]
    ELSE IF b[i] >= 128 THEN ReadVlq(b, i + 1, acc * 128 + (b[i] - 128))
    ELSE [val |-> acc * 128 + b[i], next |-> i + 1]

\* bytes of the event whose status byte is b[i]: meta events carry a type and
\* a length byte, channel events two data bytes
EventLen(b, i) ==
    IF i > Len(b) THEN 0
    ELSE IF b[i] = 255 THEN (IF i + 2 <= Len(b) THEN 3 + b[i + 2] ELSE 3)
    ELSE 3

\* the events of a track's byte stream from index i on, each with its delta,
\* the number of bytes its delta took, and its bytes
RECURSIVE ReadEvents(_, _)
ReadEvents(b, i) ==
    IF i > Len(b) THEN <<>>
    ELSE LET d == ReadVlq(b, i, 0)
             n == EventLen(b, d.next)
         IN  <<[delta |-> d.val, deltaLen |-> d.next - i,
                bytes |-> Slice(b, d.next, d.next + n - 1)]>>
             \o ReadEvents(b, d.next + (IF n = 0 THEN 1 ELSE n))

\* the byte stream behind the 14 header bytes and the 8 bytes "MTrk" + length
TrackBytes == Slice(midiData, 23, Len(midiData))

TrackEvents == ReadEvents(TrackBytes, 1)

\* the status byte of a read event, -1 when the stream ended before it
Status(e) ==
    IF e.bytes = <<>> THEN -1 ELSE e.bytes[1]

\* the running sum of the deltas up to event k
RECURSIVE AbsTick(_, _)
AbsTick(evs, k) ==
    IF k = 0 THEN 0 ELSE AbsTick(evs, k - 1) + evs[k].delta

\* the channel events (status below 0xF0) of the track, in order
ChannelEvents ==
    SelectSeq(TrackEvents, LAMBDA e : Status(e) \in 0..239)

\* how often x occurs in the sequence s
Count(s, x) ==
    Cardinality({i \in 1..Len(s) : s[i] = x})

SameBag(s, t) ==
    /\ Len(s) = Len(t)
    /\ \A i \in 1..Len(s) : Count(s, s[i]) = Count(t, s[i])

Exported == midiData # <<>>

(***************************************************************************)
(* Header chunk                                                            *)
(***************************************************************************)
\* C2: a file written by writeMidi(notes, ppq, bpm) with ppq in 1..65535
\* starts with 14 header bytes: "MThd", the 32-bit big-endian 6, then 16-bit
\* big-endian format 0, track count 1 and division ppq.
C2_Header ==
    Exported =>
        /\ Len(midiData) >= 14
        /\ SubSeq(midiData, 1, 4) = <<77, 84, 104, 100>>
        /\ SubSeq(midiData, 5, 8) = <<0, 0, 0, 6>>
        /\ SubSeq(midiData, 9, 10) = <<0, 0>>
        /\ SubSeq(midiData, 11, 12) = <<0, 1>>
        /\ \A i \in 13..14 : midiData[i] \in 0..255
        /\ midiData[13] * 256 + midiData[14] = callArgs.ppq

C2_Witness ==
    /\ Exported
    /\ callArgs.ppq = 65535
    /\ Len(callArgs.notes) >= 2

(***************************************************************************)
(* Track events                                                            *)
(***************************************************************************)
\* C3: the first event of the track is the tempo meta-event, with delta 0 and
\* bytes FF 51 03 followed by the 24-bit big-endian m, the integer nearest to
\* 60000000 / bpm; also when notes start at tick 0.
C3_TempoFirst ==
    Exported =>
        /\ Len(TrackEvents) >= 1
        /\ TrackEvents[1].delta = 0
        /\ TrackEvents[1].deltaLen = 1
        /\ Len(TrackEvents[1].bytes) = 6
        /\ SubSeq(TrackEvents[1].bytes, 1, 3) = <<255, 81, 3>>
        /\ LET m == BigEndian(SubSeq(TrackEvents[1].bytes, 4, 6))
           IN  /\ m <= 2000000
               /\ (2 * m - 1) * callArgs.bpm <= 120000000
               /\ 120000000 < (2 * m + 1) * callArgs.bpm

C3_Witness ==
    /\ Exported
    /\ Len(callArgs.notes) = 2
    /\ callArgs.notes[1].tick = 0
    /\ callArgs.notes[2].tick = 0
    /\ callArgs.notes[1].midi = 60
    /\ callArgs.notes[2].midi = 64
    /\ callArgs.bpm = 120

\* the channel events a note list asks for: per note its note-on and note-off
RECURSIVE WantedChannelBytes(_)
WantedChannelBytes(ns) ==
    IF ns = <<>> THEN <<>>
    ELSE << <<144, Head(ns).midi % 128, Head(ns).vel % 128>>,
            <<128, Head(ns).midi % 128, 64>> >> \o WantedChannelBytes(Tail(ns))

\* C4: for n notes the track holds n note-on and n note-off events and no
\* other channel event: per note [0x90, pitch & 0x7F, velocity & 0x7F] and
\* [0x80, pitch & 0x7F, 0x40].
C4_ChannelEvents ==
    Exported =>
        /\ Len(ChannelEvents) = 2 * Len(callArgs.notes)
        /\ SameBag([i \in 1..Len(ChannelEvents) |-> ChannelEvents[i].bytes],
                   WantedChannelBytes(callArgs.notes))
        /\ \A i \in 1..Len(TrackEvents) : Status(TrackEvents[i]) \in {128, 144, 255}

C4_Witness ==
    /\ Exported
    /\ Len(callArgs.notes) = 2
    /\ callArgs.notes[1].vel = 200
    /\ callArgs.notes[2].vel = 80
    /\ callArgs.notes[1].midi # callArgs.notes[2].midi

\* the channel events a note list asks for, each with its absolute tick
RECURSIVE WantedTimedBytes(_)
WantedTimedBytes(ns) ==
    IF ns = <<>> THEN <<>>
    ELSE << <<Head(ns).tick, <<144, Head(ns).midi % 128, Head(ns).vel % 128>> >>,
            <<Head(ns).tick + Head(ns).length, <<128, Head(ns).midi % 128, 64>> >> >>
         \o WantedTimedBytes(Tail(ns))

\* the channel events of the track, each with the running sum of the deltas
TimedChannelEvents ==
    LET idx == SelectSeq([i \in 1..Len(TrackEvents) |-> i],
                         LAMBDA i : Status(TrackEvents[i]) \in 0..239)
    IN  [k \in 1..Len(idx) |-> <<AbsTick(TrackEvents, idx[k]), TrackEvents[idx[k]].bytes>>]

\* C5: the running sum of the deltas up to each event is that event's absolute
\* tick (startTick for a note-on, startTick + lengthTicks for a note-off), so
\* the events lie in non-decreasing tick order, for notes given in any order.
C5_DeltaSums ==
    Exported =>
        /\ SameBag(TimedChannelEvents, WantedTimedBytes(callArgs.notes))
        /\ \A i \in 1..Len(TrackEvents) : TrackEvents[i].delta >= 0
        /\ \A i \in 1..Len(TrackEvents) : \A j \in i..Len(TrackEvents) :
             AbsTick(TrackEvents, i) <= AbsTick(TrackEvents, j)

\* a later note handed over before an earlier one
C5_Witness ==
    /\ Exported
    /\ Len(callArgs.notes) = 2
    /\ callArgs.notes[1].tick = 20000
    /\ callArgs.notes[2].tick = 0

\* the number of bytes the standard's variable-length quantity takes for d
VlqLength(d) ==
    IF d < 128 THEN 1 ELSE IF d < 16384 THEN 2 ELSE IF d < 2097152 THEN 3
    ELSE IF d < 268435456 THEN 4 ELSE 5

\* the sum over the read events of (delta bytes + event bytes), each delta
\* counted with the minimal length of its value
RECURSIVE EventsLength(_)
EventsLength(evs) ==
    IF evs = <<>> THEN 0
    ELSE VlqLength(Head(evs).delta) + Len(Head(evs).bytes) + EventsLength(Tail(evs))

\* C7: the track chunk is "MTrk", a 32-bit big-endian length equal to the
\* number of bytes that follow to the end of the file, and those bytes end
\* with 00 FF 2F 00; the length is the sum over the events of (delta bytes +
\* event bytes) plus 4, and is 20 for the single note (60, start 0, length 480)
\* at PPQ 480 and BPM 120.
C7_TrackChunk ==
    Exported =>
        /\ Len(midiData) >= 26
        /\ SubSeq(midiData, 15, 18) = <<77, 84, 114, 107>>
        /\ \A i \in 19..22 : midiData[i] \in 0..255
        /\ BigEndian(SubSeq(midiData, 19, 22)) = Len(midiData) - 22
        /\ SubSeq(midiData, Len(midiData) - 3, Len(midiData)) = <<0, 255, 47, 0>>
        /\ TrackEvents[Len(TrackEvents)].bytes = <<255, 47, 0>>
        /\ BigEndian(SubSeq(midiData, 19, 22))
             = EventsLength(SubSeq(TrackEvents, 1, Len(TrackEvents) - 1)) + 4
        /\ (/\ Len(callArgs.notes) = 1
            /\ callArgs.notes[1].tick = 0
            /\ callArgs.notes[1].length = 480)
           => BigEndian(SubSeq(midiData, 19, 22)) = 20

C7_Witness ==
    /\ Exported
    /\ Len(callArgs.notes) = 1
    /\ callArgs.notes[1].midi = 60
    /\ callArgs.notes[1].tick = 0
    /\ callArgs.notes[1].length = 480
    /\ callArgs.ppq = 480
    /\ callArgs.bpm = 120
    /\ Len(TrackBytes) = 20

(***************************************************************************)
(* The variable-length writer on single deltas                             *)
(***************************************************************************)
InitVlq ==
    /\ notes = <<>>
    /\ InitEditor
    /\ InitPlay
    /\ InitSynth
    /\ InitGrid
    /\ midiData = <<>>
    /\ callArgs = NoArgs
    /\ lastCall = NoCall
    /\ snapIn = 0
    /\ snapOut = -1
    /\ scrollOffset = 24
    /\ vlqIn \in DeltaSet
    /\ vlqOut = <<>>

WriteDelta ==
    /\ vlqOut = <<>>
    /\ vlqOut' = vlBytes(vlqIn)
    /\ UNCHANGED <<notes, editorVars, writerVars, vlqIn,
                   playVars, synthVars, gridVars, snapVars, scrollOffset>>

\* the next event's delta arrives
NextDelta ==
    /\ vlqOut # <<>>
    /\ vlqIn' \in DeltaSet
    /\ vlqOut' = <<>>
    /\ UNCHANGED <<notes, editorVars, writerVars,
                   playVars, synthVars, gridVars, snapVars, scrollOffset>>

NextVlq ==
    \/ WriteDelta
    \/ NextDelta

SpecVlq == InitVlq /\ [][NextVlq]_vars

acceptsAnyVelocity(note, velocity) ==
    note >= 21 /\ note <= 108

\* velocity > 0 && note >= 21 && note <= 108
accepts(note, velocity) ==
    velocity > 0 /\ note >= 21 /\ note <= 108

\* for (let i = 0; i < midiData.length - 3; i++): the notes pushed from scan
\* offset i on; data[i] is data[i + 1] here, sequences being 1-based
RECURSIVE scanFrom(_, _, _, _)
scanFrom(data, i, currentTick, t) ==
    IF ~(i < Len(data) - 3) THEN <<>>
    ELSE IF data[i + 1] \div 16 = 9
         THEN (IF accepts(data[i + 2], data[i + 3])
               THEN <<[id |-> [kind |-> "imported", at |-> t, i |-> i],
                       tick |-> currentTick, length |-> PPQ \div 4,
                       midi |-> data[i + 2], vel |-> data[i + 3]]>>
               ELSE <<>>)
              \o scanFrom(data, i + 1, currentTick + PPQ \div 8, t)
         ELSE scanFrom(data, i + 1, currentTick, t)

\* the list importedNotes after the loop, for a scan run at clock value t
importedNotes(data, t) ==
    scanFrom(data, 0, 0, t)

\* the store is set also when nothing was recovered
storeAfterImportAlways(data, t) ==
    importedNotes(data, t)

\* if (importedNotes.length > 0) setNotes(importedNotes)
storeAfterImport(data, t) ==
    IF Len(importedNotes(data, t)) > 0 THEN importedNotes(data, t) ELSE notes

\* a file is chosen: the handler runs up to await file.arrayBuffer()
ImportStart ==
    /\ pendingReads = 0
    /\ pendingReads' = pendingReads + 1
    /\ UNCHANGED <<notes, selectedRef, dragInfo, now, lastRead, alertMsg,
                   writerVars, vlqVars,
                   playVars, synthVars, gridVars, snapVars, scrollOffset>>

\* the read delivers data: the scan, setNotes and the alert
ImportRead(data) ==
    /\ pendingReads > 0
    /\ pendingReads' = pendingReads - 1
    /\ lastRead' = data
    /\ notes' = storeAfterImport(data, now)
    /\ alertMsg' = IF Len(importedNotes(data, now)) > 0
                   THEN [kind |-> "imported", count |-> Len(importedNotes(data, now))]
                   ELSE [kind |-> "novalid", count |-> 0]
    /\ UNCHANGED <<selectedRef, dragInfo, now, writerVars, vlqVars,
                   playVars, synthVars, gridVars, snapVars, scrollOffset>>

\* the read is rejected: the catch block
ImportFail ==
    /\ pendingReads > 0
    /\ pendingReads' = pendingReads - 1
    /\ lastRead' = NoRead
    /\ alertMsg' = [kind |-> "error", count |-> 0]
    /\ UNCHANGED <<notes, selectedRef, dragInfo, now, writerVars, vlqVars,
                   playVars, synthVars, gridVars, snapVars, scrollOffset>>

(***************************************************************************)
(* The importer on every file over FileBytes, the store empty or not       *)
(***************************************************************************)
\* a note as a click on the empty grid creates it
clickedNote(t, tick, midi) ==
    [id |-> [kind |-> "click", at |-> t, i |-> 0],
     tick |-> tick, length |-> PPQ \div 4, midi |-> midi, vel |-> 80]

InitImport ==
    /\ notes \in {<<>>, <<clickedNote(0, 0, 60)>>}
    /\ InitEditor
    /\ InitPlay
    /\ InitSynth
    /\ InitGrid
    /\ midiData = <<>>
    /\ callArgs = NoArgs
    /\ lastCall = NoCall
    /\ snapIn = 0
    /\ snapOut = -1
    /\ scrollOffset = 24
    /\ vlqIn = 0
    /\ vlqOut = <<>>

\* one file is imported in each behaviour
ImportStartOnce ==
    /\ alertMsg = NoAlert
    /\ ImportStart

ImportReadAny ==
    /\ pendingReads > 0
    /\ \E data \in Files : ImportRead(data)

NextImport ==
    \/ ImportStartOnce
    \/ ImportReadAny
    \/ ImportFail

SpecImport == InitImport /\ [][NextImport]_vars

\* the scan offsets (0-based) of a file at which a note-on triple qualifies:
\* a byte with high nibble 9, then a pitch in 21..108, then a velocity > 0
Qualifying(data) ==
    {i \in 0..(Len(data) - 3) :
        /\ data[i + 1] \in 144..159
        /\ data[i + 2] \in 21..108
        /\ data[i + 3] > 0}

ReadDone == lastRead # NoRead /\ alertMsg.kind \in {"imported", "novalid"}

\* C8: every note-on triple of an imported buffer with velocity > 0 and pitch
\* in 21..108 yields a recovered note, wherever it lies in the buffer, the
\* last three bytes included: [0x90, 60, 100] yields one note with pitch 60.
C8_EveryTripleRecovered ==
    ReadDone =>
        \A i \in Qualifying(lastRead) :
            /\ alertMsg.kind = "imported"
            /\ \E k \in 1..Len(notes) :
                 /\ notes[k].id = [kind |-> "imported", at |-> now, i |-> i]
                 /\ notes[k].midi = lastRead[i + 2]

\* C9: every note recovered by import comes from a byte with high nibble 9,
\* the next byte as pitch in 21..108 and the byte after as velocity > 0; a
\* note-on with velocity 0 or a pitch outside 21..108 produces no note.
C9_OnlyQualifying ==
    (ReadDone /\ alertMsg.kind = "imported") =>
        /\ Len(notes) = alertMsg.count
        /\ \A k \in 1..Len(notes) :
             /\ notes[k].id.kind = "imported"
             /\ notes[k].id.i \in Qualifying(lastRead)
             /\ notes[k].midi = lastRead[notes[k].id.i + 2]
             /\ notes[k].vel = lastRead[notes[k].id.i + 3]
             /\ notes[k].midi \in 21..108
             /\ notes[k].vel > 0
        /\ \A k \in 1..Len(notes) : \A j \in 1..Len(notes) :
             notes[k].id.i = notes[j].id.i => k = j

\* a file with a zero-velocity note-on in front of a good one was imported
C9_Witness ==
    /\ ReadDone
    /\ alertMsg.kind = "imported"
    /\ lastRead = <<144, 60, 0, 144, 100, 60, 0>>
    /\ Len(notes) = 1
    /\ notes[1].midi = 100

(***************************************************************************)
(* components/PianoRoll.tsx : the canvas editor                            *)
(***************************************************************************)
\* PPQ * 4 * (visibleBeats / 4) / zoom
totalTicks == (PPQ * 4 * (visibleBeats \div 4)) \div zoom

\* Math.floor(gridX / pixelsPerTick), pixelsPerTick being
\* (canvasWidth - pianoWidth) / totalTicks
tickAt(gridX) ==
    (gridX * totalTicks) \div (canvasWidth - pianoWidth)

\* Math.floor(y / (canvasHeight / keyCount))
keyIndexAt(y) ==
    (y * keyCount) \div canvasHeight

\* a snapping to the nearest grid line
snapToNearest(tick) ==
    ((tick + (PPQ \div 4) \div 2) \div (PPQ \div 4)) * (PPQ \div 4)

\* Math.floor(tick / (PPQ / 4)) * (PPQ / 4)
snapToGrid(tick) ==
    (tick \div (PPQ \div 4)) * (PPQ \div 4)

\* the predicate of notes.find in the mouse handlers: the pointer lies in the
\* note's rectangle, both edges included, the rectangle 4 pixels lower than
\* its row
hits(note, gridX, y) ==
    /\ gridX * totalTicks >= note.tick * (canvasWidth - pianoWidth)
    /\ gridX * totalTicks <= (note.tick + note.length) * (canvasWidth - pianoWidth)
    /\ y * keyCount >= (topMidi - note.midi) * canvasHeight
    /\ y * keyCount <= (topMidi - note.midi) * canvasHeight + canvasHeight - 4 * keyCount

\* notes.find: the index of the first note hit, 0 when there is none
findIndex(gridX, y) ==
    LET found == {k \in 1..Len(notes) : hits(notes[k], gridX, y)}
    IN  IF found = {} THEN 0 ELSE CHOOSE k \in found : \A j \in found : k <= j

\* a filter that drops the first note when no note has the id
withoutOrFirst(id) ==
    IF \A k \in 1..Len(notes) : notes[k].id # id
    THEN SubSeq(notes, 2, Len(notes))
    ELSE SelectSeq(notes, LAMBDA n : n.id # id)

\* prevNotes.filter(note => note.id !== id)
without(id) ==
    SelectSeq(notes, LAMBDA n : n.id # id)

\* handleCanvasMouseDown on a note: it is selected and a drag starts
MouseDownOnNoteAt(x, y) ==
    /\ x >= pianoWidth
    /\ findIndex(x - pianoWidth, y) # 0
    /\ LET clicked == notes[findIndex(x - pianoWidth, y)]
       IN  /\ selectedRef' = clicked.id
           /\ dragInfo' = [isDragging |-> TRUE, isResizing |-> FALSE,
                           noteId |-> clicked.id, startX |-> x, startY |-> y,
                           originalTick |-> clicked.tick,
                           originalMidi |-> clicked.midi,
                           originalLength |-> clicked.length]
    /\ UNCHANGED <<notes, now, pendingReads, lastRead, alertMsg, writerVars, vlqVars,
                   playVars, synthVars, gridVars, snapVars, scrollOffset>>

\* a note is clicked, with the pointer drawn from the rows around middle C
MouseDownOnNote ==
    \E x \in XSet, y \in YSet : MouseDownOnNoteAt(x, y)

\* handleCanvasMouseDown on the empty grid: a note is created
MouseDownCreateAt(x, y) ==
    /\ x >= pianoWidth
    /\ findIndex(x - pianoWidth, y) = 0
    /\ Len(notes) < MaxStore
    /\ notes' = Append(notes, clickedNote(now, snapToGrid(tickAt(x - pianoWidth)),
                                          topMidi - keyIndexAt(y)))
    /\ UNCHANGED <<editorVars, writerVars, vlqVars,
                   playVars, synthVars, gridVars, snapVars, scrollOffset>>

\* the empty grid is clicked, likewise
MouseDownCreate ==
    \E x \in XSet, y \in YSet : MouseDownCreateAt(x, y)

Max(a, b) == IF a > b THEN a ELSE b
Min(a, b) == IF a < b THEN a ELSE b

\* Math.floor(deltaX / pixelsPerTick) of the drag in progress
tickDeltaAt(x) ==
    ((x - dragInfo.startX) * totalTicks) \div (canvasWidth - pianoWidth)

\* -Math.floor(deltaY / keyHeight) of the drag in progress
midiDeltaAt(y) ==
    0 - (((y - dragInfo.startY) * keyCount) \div canvasHeight)

\* a clamp that has no upper end
clampLowOnly(midi) ==
    Max(21, midi)

\* Math.max(21, Math.min(108, midi))
clampMidi(midi) ==
    Max(21, Min(108, midi))

\* handleCanvasMouseMove during a drag: the dragged note is moved
MouseMoveAt(x, y) ==
    /\ dragInfo.isDragging
    /\ LET newTick == Max(0, dragInfo.originalTick + tickDeltaAt(x))
           newMidi == clampMidi(dragInfo.originalMidi + midiDeltaAt(y))
       IN  notes' = [k \in 1..Len(notes) |->
                        IF notes[k].id = dragInfo.noteId
                        THEN [notes[k] EXCEPT !.tick = snapToGrid(newTick),
                                              !.midi = newMidi]
                        ELSE notes[k]]
    /\ UNCHANGED <<editorVars, writerVars, vlqVars,
                   playVars, synthVars, gridVars, snapVars, scrollOffset>>

\* the pointer moves during a drag, likewise
MouseMove ==
    \E x \in XSet, y \in YSet : MouseMoveAt(x, y)

\* handleCanvasMouseUp, also bound to onMouseLeave
MouseUp ==
    /\ dragInfo' = NoDrag
    /\ UNCHANGED <<notes, selectedRef, now, pendingReads, lastRead, alertMsg,
                   writerVars, vlqVars,
                   playVars, synthVars, gridVars, snapVars, scrollOffset>>

\* handleCanvasRightClick: the note under the pointer is deleted
RightClick ==
    \E x \in XSet, y \in YSet :
        /\ x >= pianoWidth
        /\ findIndex(x - pianoWidth, y) # 0
        /\ notes' = without(notes[findIndex(x - pianoWidth, y)].id)
        /\ selectedRef' = NoId
        /\ UNCHANGED <<dragInfo, now, pendingReads, lastRead, alertMsg,
                       writerVars, vlqVars,
                       playVars, synthVars, gridVars, snapVars, scrollOffset>>

\* handleKeyDown, Delete or Backspace with a note selected. The updater
\* handed to setNotes reads selectedRef.current when React runs it: at once,
\* or at the next render, after the handler has set the ref to null
KeyDelete ==
    /\ selectedRef # NoId
    /\ \E id \in {selectedRef, NoId} : notes' = without(id)
    /\ selectedRef' = NoId
    /\ UNCHANGED <<dragInfo, now, pendingReads, lastRead, alertMsg, writerVars, vlqVars,
                   playVars, synthVars, gridVars, snapVars, scrollOffset>>

\* handleKeyDown, Escape
KeyEscape ==
    /\ selectedRef' = NoId
    /\ dragInfo' = NoDrag
    /\ UNCHANGED <<notes, now, pendingReads, lastRead, alertMsg, writerVars, vlqVars,
                   playVars, synthVars, gridVars, snapVars, scrollOffset>>

(***************************************************************************)
(* components/PianoRoll.tsx : playback                                     *)
(***************************************************************************)
\* the transport times the clock is seen at, in units of 1/2000 second:
\* ticks 120 and 240, the end of the roll (tick 7680) and a poll after it
TimeSet == {250, 500, 16000, 16250}

\* the same span in milliseconds
millisOf(ticks) ==
    (ticks * 60 * 1000) \div (PPQ * BPM)

\* (ticks / PPQ) * (60 / BPM) seconds, in units of 1/2000 second
secondsOf(ticks) ==
    (ticks * 60 * 2000) \div (PPQ * BPM)

\* (transportSeconds / 60) * BPM * PPQ, the transport time in ticks
currentTickAt(t) ==
    (t * BPM * PPQ) \div (60 * 2000)

\* PPQ * 16
maxTicks == PPQ * 16

\* the event Tone.Transport.schedule registers for a note: its callback
\* closes over the k-th note object of the list and its duration
eventOf(ns, k) ==
    [time |-> secondsOf(ns[k].tick), duration |-> secondsOf(ns[k].length),
     note |-> ns[k], index |-> k]

\* notes.forEach(note => Tone.Transport.schedule(...))
scheduleAll(ns) ==
    [k \in 1..Len(ns) |-> eventOf(ns, k)]

\* a sequence without its j-th element
dropAt(seq, j) ==
    SubSeq(seq, 1, j - 1) \o SubSeq(seq, j + 1, Len(seq))

\* a stop that leaves out Tone.Transport.cancel()
haltWithoutCancel ==
    /\ transportState' = "stopped"
    /\ transportTime' = 0
    /\ scheduled' = scheduled
    /\ isPlaying' = FALSE
    /\ cursorTick' = 0
    /\ timers' = IF timelineRef # 0 THEN dropAt(timers, timelineRef) ELSE timers
    /\ timelineRef' = 0

\* Tone.Transport.stop(); Tone.Transport.cancel(); setIsPlaying(false);
\* setCursorTick(0); clearInterval(timelineRef.current), as playNotes,
\* clearNotes and the interval callback do it; stop() rewinds the transport
haltPlayback ==
    /\ transportState' = "stopped"
    /\ transportTime' = 0
    /\ scheduled' = <<>>
    /\ isPlaying' = FALSE
    /\ cursorTick' = 0
    /\ timers' = IF timelineRef # 0 THEN dropAt(timers, timelineRef) ELSE timers
    /\ timelineRef' = 0

\* a playNotes that starts whatever isPlaying is and cancels nothing
startUnchecked ==
    /\ isPlaying' = TRUE
    /\ cursorTick' = 0
    /\ scheduled' = scheduled \o scheduleAll(notes)
    /\ transportTime' = 0
    /\ transportState' = "started"
    /\ timers' = Append(timers, [isPlaying |-> isPlaying])
    /\ timelineRef' = Len(timers) + 1
    /\ polledAt' = -1
    /\ UNCHANGED <<notes, editorVars, writerVars, vlqVars, synthVars, gridVars, snapVars, scrollOffset>>

\* playNotes, the Play / Stop button: it stops when isPlaying, else it
\* schedules the notes, starts the transport and sets the cursor interval
playNotes ==
    /\ IF isPlaying
       THEN /\ haltPlayback
            /\ UNCHANGED polledAt
       ELSE /\ isPlaying' = TRUE
            /\ cursorTick' = 0
            /\ scheduled' = scheduleAll(notes)
            /\ transportTime' = 0
            /\ transportState' = "started"
            /\ timers' = Append(timers, [isPlaying |-> isPlaying])
            /\ timelineRef' = Len(timers) + 1
            /\ polledAt' = -1
    /\ UNCHANGED <<notes, editorVars, writerVars, vlqVars, synthVars, gridVars, snapVars, scrollOffset>>

\* the transport's clock runs on
TimePasses ==
    /\ transportState = "started"
    /\ \E t \in TimeSet :
         /\ t > transportTime
         /\ transportTime' = t
    /\ UNCHANGED <<notes, editorVars, writerVars, vlqVars, isPlaying, cursorTick,
                   transportState, scheduled, timers, timelineRef, polledAt,
                   synthVars, gridVars, snapVars, scrollOffset>>

\* the callback handed to Tone.Transport.schedule runs for an event that is
\* due: synthRef.current?.triggerAttackRelease(noteName, duration, time, velocity)
TransportCallback ==
    /\ transportState = "started"
    /\ \E k \in 1..Len(scheduled) :
         /\ scheduled[k].time <= transportTime
         /\ scheduled' = dropAt(scheduled, k)
    /\ lastTrigger' = [by |-> "playback", instrument |-> synthRef.instrument,
                       disposed |-> synthRef.disposed, loaded |-> samplesLoaded]
    /\ UNCHANGED <<notes, editorVars, writerVars, vlqVars, isPlaying, cursorTick,
                   transportState, transportTime, timers, timelineRef, polledAt,
                   selectedInstrument, samplesLoaded, pendingLoads, synthRef,
                   gridVars, snapVars, scrollOffset>>

\* the callback of window.setInterval runs, every 50 ms: it returns at once
\* unless the isPlaying it closed over is true, else it moves the cursor or,
\* beyond maxTicks, stops playback
IntervalCallback ==
    /\ \E j \in 1..Len(timers) :
         IF ~timers[j].isPlaying
         THEN UNCHANGED <<isPlaying, cursorTick, transportState, transportTime,
                          scheduled, timers, timelineRef, snapVars, scrollOffset>>
         ELSE IF currentTickAt(transportTime) <= maxTicks
              THEN /\ cursorTick' = currentTickAt(transportTime)
                   /\ UNCHANGED <<isPlaying, transportState, transportTime,
                                  scheduled, timers, timelineRef, snapVars, scrollOffset>>
              ELSE haltPlayback
    /\ polledAt' = transportTime
    /\ UNCHANGED <<notes, editorVars, writerVars, vlqVars, synthVars, gridVars, snapVars, scrollOffset>>

(***************************************************************************)
(* components/PianoRoll.tsx : the instrument                               *)
(***************************************************************************)
\* the instruments offered, the piano and one that needs no loading
InstrumentSet == {"piano", "guitar"}

\* onChange of the instrument select, then the effect on selectedInstrument:
\* the cleanup of the previous run stops the transport; the effect disposes
\* the handle held, sets the ready flag (false for the piano), and builds
\* the new handle; the piano's factory sets the timeout of 100 ms
selectInstrument ==
    /\ \E v \in InstrumentSet :
         /\ v # selectedInstrument
         /\ v = "piano" => pendingLoads < MaxLoads
         /\ selectedInstrument' = v
         /\ samplesLoaded' = (v # "piano")
         /\ synthRef' = [instrument |-> v, disposed |-> FALSE]
         /\ pendingLoads' = IF v = "piano" THEN pendingLoads + 1 ELSE pendingLoads
    /\ transportState' = "stopped"
    /\ transportTime' = 0
    /\ UNCHANGED <<notes, editorVars, writerVars, vlqVars, isPlaying, cursorTick,
                   scheduled, timers, timelineRef, polledAt, lastTrigger, gridVars, snapVars, scrollOffset>>

\* a timeout of a piano factory is due: setSamplesLoaded(true)
LoadTimeout ==
    /\ pendingLoads > 0
    /\ pendingLoads' = pendingLoads - 1
    /\ samplesLoaded' = TRUE
    /\ UNCHANGED <<notes, editorVars, writerVars, vlqVars, playVars,
                   selectedInstrument, synthRef, lastTrigger, gridVars, snapVars, scrollOffset>>

\* the guard of the key handlers: selectedInstrument !== 'piano' || samplesLoaded
mayTrigger == selectedInstrument # "piano" \/ samplesLoaded

\* handleCanvasMouseDown on the piano keys (x < pianoWidth):
\* synthRef.current?.triggerAttackRelease under the guard
PianoKeyClick ==
    /\ lastTrigger' = IF mayTrigger
                      THEN [by |-> "key", instrument |-> synthRef.instrument,
                            disposed |-> synthRef.disposed, loaded |-> samplesLoaded]
                      ELSE lastTrigger
    /\ UNCHANGED <<notes, editorVars, writerVars, vlqVars, playVars,
                   selectedInstrument, samplesLoaded, pendingLoads, synthRef,
                   gridVars, snapVars, scrollOffset>>

\* handleKeyDown of the keyboard effect on a mapped key:
\* synthRef.current?.triggerAttack under the guard
KeyboardDown ==
    /\ lastTrigger' = IF mayTrigger
                      THEN [by |-> "keyboard", instrument |-> synthRef.instrument,
                            disposed |-> synthRef.disposed, loaded |-> samplesLoaded]
                      ELSE lastTrigger
    /\ UNCHANGED <<notes, editorVars, writerVars, vlqVars, playVars,
                   selectedInstrument, samplesLoaded, pendingLoads, synthRef,
                   gridVars, snapVars, scrollOffset>>

\* clearNotes
clearNotes ==
    /\ notes' = <<>>
    /\ IF isPlaying
       THEN haltPlayback
       ELSE UNCHANGED <<isPlaying, cursorTick, transportState, transportTime,
                        scheduled, timers, timelineRef, snapVars, scrollOffset>>
    /\ UNCHANGED <<editorVars, writerVars, vlqVars, polledAt, synthVars, gridVars, snapVars, scrollOffset>>

\* exportMIDI: writeMidi(notes, BPM, PPQ), its parameters being (notes, ppq, bpm)
exportMIDI ==
    /\ midiData' = writeMidi(notes, BPM, PPQ)
    /\ callArgs' = [notes |-> notes, ppq |-> BPM, bpm |-> PPQ]
    /\ lastCall' = [args |-> callArgs, data |-> midiData]
    /\ UNCHANGED <<notes, editorVars, vlqVars,
                   playVars, synthVars, gridVars, snapVars, scrollOffset>>

ImportReadFile ==
    /\ pendingReads > 0
    /\ \E data \in EditorFiles : ImportRead(data)

\* a millisecond passes
ClockTick ==
    /\ now < MaxNow
    /\ now' = now + 1
    /\ UNCHANGED <<notes, selectedRef, dragInfo, pendingReads, lastRead, alertMsg,
                   writerVars, vlqVars,
                   playVars, synthVars, gridVars, snapVars, scrollOffset>>

Init ==
    /\ notes = <<>>
    /\ InitEditor
    /\ InitPlay
    /\ InitSynth
    /\ InitGrid
    /\ midiData = <<>>
    /\ callArgs = NoArgs
    /\ lastCall = NoCall
    /\ snapIn = 0
    /\ snapOut = -1
    /\ scrollOffset = 24
    /\ vlqIn = 0
    /\ vlqOut = <<>>

\* the operations on the note store
Edit ==
    \/ MouseDownOnNote
    \/ MouseDownCreate
    \/ MouseMove
    \/ MouseUp
    \/ RightClick
    \/ KeyDelete
    \/ KeyEscape
    \/ clearNotes
    \/ ImportStart
    \/ ImportReadFile
    \/ ImportFail
    \/ ClockTick

Next ==
    \/ Edit
    \/ exportMIDI

Spec == Init /\ [][Next]_vars

\* behaviours that edit the store and then export it
NextExport ==
    \/ ~Exported /\ Edit
    \/ exportMIDI

SpecExport == Init /\ [][NextExport]_vars

\* C1: the file exported by the editor carries the document's resolution and
\* tempo: the header's division is PPQ = 480 and the tempo meta-event holds
\* round(60000000 / BPM) = 500000, bytes 07 A1 20, for every note list.
C1_ExportCarriesPpqAndBpm ==
    Exported =>
        /\ midiData[13] * 256 + midiData[14] = PPQ
        /\ SubSeq(TrackEvents[1].bytes, 1, 3) = <<255, 81, 3>>
        /\ SubSeq(TrackEvents[1].bytes, 4, 6) = <<7, 161, 32>>
        /\ BigEndian(SubSeq(TrackEvents[1].bytes, 4, 6)) * BPM = 60000000

\* C10: import has three outcomes. A failed read is reported as an error and
\* leaves the store unchanged; a buffer with no qualifying note-on is
\* reported as an empty result and leaves the store unchanged; otherwise the
\* store becomes the list of the notes recovered, one per qualifying note-on
\* in the order of the buffer.
C10_ImportOutcomes ==
    [][pendingReads' < pendingReads =>
        /\ alertMsg'.kind \in {"error", "novalid", "imported"}
        /\ lastRead' = NoRead =>
              (alertMsg'.kind = "error" /\ notes' = notes)
        /\ (lastRead' # NoRead /\ Qualifying(lastRead') = {}) =>
              (alertMsg'.kind = "novalid" /\ notes' = notes)
        /\ (lastRead' # NoRead /\ Qualifying(lastRead') # {}) =>
              /\ alertMsg'.kind = "imported"
              /\ Len(notes') = Cardinality(Qualifying(lastRead'))
              /\ \A k \in 1..Len(notes') :
                   /\ notes'[k].id.kind = "imported"
                   /\ notes'[k].id.i \in Qualifying(lastRead')
                   /\ notes'[k].midi = lastRead'[notes'[k].id.i + 2]
                   /\ notes'[k].vel = lastRead'[notes'[k].id.i + 3]
              /\ \A k \in 1..(Len(notes') - 1) : notes'[k].id.i < notes'[k + 1].id.i
    ]_vars

(***************************************************************************)
(* The note store under the editing operations                             *)
(***************************************************************************)
SpecEdit == Init /\ [][Edit]_vars

\* C11: the ids of the notes in the store are pairwise distinct after any
\* sequence of add, move, remove, clear and import, also when two notes are
\* added within the same millisecond of the clock.
C11_DistinctIds ==
    \A k \in 1..Len(notes) : \A j \in 1..Len(notes) :
        notes[k].id = notes[j].id => k = j

\* C12: every note in the store has a pitch in 0..127, a start tick >= 0, a
\* length > 0 and a velocity in 0..127.
C12_FieldRanges ==
    \A k \in 1..Len(notes) :
        /\ notes[k].midi \in 0..127
        /\ notes[k].tick >= 0
        /\ notes[k].length > 0
        /\ notes[k].vel \in 0..127

(***************************************************************************)
(* Playback of the store                                                   *)
(***************************************************************************)
NextPlay ==
    \/ MouseDownCreate
    \/ clearNotes
    \/ playNotes
    \/ TimePasses
    \/ TransportCallback
    \/ IntervalCallback
    \/ selectInstrument
    \/ LoadTimeout
    \/ PianoKeyClick
    \/ KeyboardDown

SpecPlay == Init /\ [][NextPlay]_vars

\* a step of playNotes that starts playback
Started == ~isPlaying /\ isPlaying'

\* C13: start() resets the cursor to 0 and schedules exactly one trigger per
\* note that is in the store at that moment, at (tick / PPQ) * (60 / BPM)
\* seconds and with the duration (length / PPQ) * (60 / BPM) seconds; no
\* trigger is scheduled for a note that is not in the store at that moment,
\* and none is added while playback runs.
C13_StartSchedules ==
    [][/\ Started =>
            /\ cursorTick' = 0
            /\ Len(scheduled') = Len(notes)
            /\ \A k \in 1..Len(notes) :
                 /\ scheduled'[k].note = notes[k]
                 /\ scheduled'[k].time * PPQ * BPM = notes[k].tick * 60 * 2000
                 /\ scheduled'[k].duration * PPQ * BPM = notes[k].length * 60 * 2000
       /\ ~Started =>
            \A k \in 1..Len(scheduled') :
                \E j \in 1..Len(scheduled) : scheduled'[k] = scheduled[j]
    ]_vars

\* playback was started on a store of one note at tick 120, and a second
\* note was added after the start
C13_Witness ==
    /\ isPlaying
    /\ transportTime = 0
    /\ Len(scheduled) = 1
    /\ scheduled[1].time = 250
    /\ scheduled[1].duration = 250
    /\ Len(notes) = 2
    /\ scheduled[1].note = notes[1]

\* C14: while playback runs, every poll of the cursor interval sets the
\* cursor to elapsedSeconds / 60 * BPM * PPQ, the transport time in ticks, so
\* that the cursor is above 0 once the transport time has advanced.
C14_PollSetsCursor ==
    (isPlaying /\ polledAt >= 0 /\ currentTickAt(polledAt) < maxTicks) =>
        /\ cursorTick * 60 * 2000 = polledAt * BPM * PPQ
        /\ polledAt > 0 => cursorTick > 0

\* C15: playback stops by itself: once a poll finds the cursor at or beyond
\* PPQ * 16 ticks, playback is stopped, the cursor is 0, the transport is
\* halted and the interval is cleared, without any user action.
C15_AutoStop ==
    (polledAt >= 0 /\ currentTickAt(polledAt) >= maxTicks) =>
        /\ ~isPlaying
        /\ cursorTick = 0
        /\ transportState = "stopped"
        /\ timelineRef = 0
        /\ timers = <<>>

\* C16: after stop(), and after clear() while playing, no scheduled trigger
\* is pending and none fires until the next start; a start followed at once
\* by a stop fires no trigger.
C16_StopCancels ==
    [][/\ (isPlaying /\ ~isPlaying') =>
            /\ scheduled' = <<>>
            /\ transportState' = "stopped"
            /\ lastTrigger' = lastTrigger
       /\ (~isPlaying /\ ~isPlaying') =>
            /\ scheduled = <<>>
            /\ scheduled' = <<>>
            /\ transportState' = "stopped"
            /\ lastTrigger' # lastTrigger => lastTrigger'.by # "playback"
    ]_vars

\* playback was stopped after a poll at tick 120 and before any trigger ran,
\* the two notes of the store still there
C16_Witness ==
    /\ ~isPlaying
    /\ polledAt = 250
    /\ Len(notes) = 2
    /\ lastTrigger = NoTrigger
    /\ scheduled = <<>>

\* C20: no trigger, from playback, a click on a piano key or the keyboard, is
\* issued against a disposed handle or while the ready flag of the selected
\* instrument is false.
C20_TriggersWhenReady ==
    lastTrigger # NoTrigger =>
        /\ ~lastTrigger.disposed
        /\ lastTrigger.loaded

(***************************************************************************)
(* unnamed/part_002 : playback of the grid editor                          *)
(***************************************************************************)
GRID_WIDTH == 32

\* what the BPM field hands to parseInt: a number, or text that is none (-1)
BpmInputs == {-1, 0, 60}

\* parseInt(e.target.value) || 120
parsedBpm(v) == IF v <= 0 THEN 120 ELSE v

\* (60 / prev.bpm / 4) * 1000, the milliseconds of a step
stepDuration(bpm) ==
    (60 * 1000) \div (bpm * 4)

\* togglePlayback, the Play / Pause button: it sets the step interval when it
\* starts and clears it when it pauses, and flips isPlaying
togglePlayback ==
    /\ IF ~state.isPlaying
       THEN /\ gridTimers' = Append(gridTimers, stepDuration(state.bpm))
            /\ playIntervalRef' = Len(gridTimers) + 1
       ELSE /\ gridTimers' = IF playIntervalRef # 0
                             THEN dropAt(gridTimers, playIntervalRef)
                             ELSE gridTimers
            /\ playIntervalRef' = 0
    /\ state' = [state EXCEPT !.isPlaying = ~state.isPlaying]
    /\ gridCall' = "toggle"
    /\ UNCHANGED <<notes, editorVars, writerVars, vlqVars, playVars, synthVars,
                   aiSuggestions, showSuggestions, gridSeq, snapVars, scrollOffset>>

\* a Stop button that does what the Play / Pause button does
stopAsToggle ==
    /\ IF ~state.isPlaying
       THEN /\ gridTimers' = Append(gridTimers, stepDuration(state.bpm))
            /\ playIntervalRef' = Len(gridTimers) + 1
       ELSE /\ gridTimers' = IF playIntervalRef # 0
                             THEN dropAt(gridTimers, playIntervalRef)
                             ELSE gridTimers
            /\ playIntervalRef' = 0
    /\ state' = [state EXCEPT !.isPlaying = ~state.isPlaying]
    /\ gridCall' = "stop"
    /\ UNCHANGED <<notes, editorVars, writerVars, vlqVars, playVars, synthVars,
                   aiSuggestions, showSuggestions, gridSeq, snapVars, scrollOffset>>

\* stopPlayback, the Stop button
stopPlayback ==
    /\ state' = [state EXCEPT !.isPlaying = FALSE, !.currentPosition = 0]
    /\ gridTimers' = IF playIntervalRef # 0
                     THEN dropAt(gridTimers, playIntervalRef)
                     ELSE gridTimers
    /\ playIntervalRef' = 0
    /\ gridCall' = "stop"
    /\ UNCHANGED <<notes, editorVars, writerVars, vlqVars, playVars, synthVars,
                   aiSuggestions, showSuggestions, gridSeq, snapVars, scrollOffset>>

\* the callback of the step interval runs: the position moves on by one
\* step and wraps at GRID_WIDTH
StepCallback ==
    /\ \E j \in 1..Len(gridTimers) :
         state' = [state EXCEPT
                      !.currentPosition = (state.currentPosition + 1) % GRID_WIDTH]
    /\ gridCall' = "step"
    /\ UNCHANGED <<notes, editorVars, writerVars, vlqVars, playVars, synthVars,
                   playIntervalRef, gridTimers,
                   aiSuggestions, showSuggestions, gridSeq, snapVars, scrollOffset>>

\* onChange of the BPM field
setBpm ==
    /\ \E v \in BpmInputs : state' = [state EXCEPT !.bpm = parsedBpm(v)]
    /\ gridCall' = "bpm"
    /\ UNCHANGED <<notes, editorVars, writerVars, vlqVars, playVars, synthVars,
                   playIntervalRef, gridTimers,
                   aiSuggestions, showSuggestions, gridSeq, snapVars, scrollOffset>>

NextGrid ==
    \/ togglePlayback
    \/ stopPlayback
    \/ StepCallback
    \/ setBpm

SpecGrid == Init /\ [][NextGrid]_vars

\* the play and stop controls of both editors, their timers running
NextStartStop ==
    \/ MouseDownCreate
    \/ clearNotes
    \/ playNotes
    \/ TimePasses
    \/ TransportCallback
    \/ IntervalCallback
    \/ togglePlayback
    \/ stopPlayback
    \/ StepCallback

SpecStartStop == Init /\ [][NextStartStop]_vars

\* C17: starting playback while it already plays acts as a stop: after any
\* sequence of play and stop actions each note has at most one pending
\* trigger and at most one cursor timer is live, in the canvas editor and in
\* the grid editor.
C17_NoDoubleScheduling ==
    /\ Len(timers) <= 1
    /\ Len(gridTimers) <= 1
    /\ \A k \in 1..Len(scheduled) : \A j \in 1..Len(scheduled) :
         scheduled[k].index = scheduled[j].index => k = j

\* the canvas editor plays again after a run in which a trigger fired, both
\* notes pending once more, and the grid editor plays at step 3
C17_Witness ==
    /\ isPlaying
    /\ lastTrigger.by = "playback"
    /\ Len(notes) = 2
    /\ Len(scheduled) = 2
    /\ Len(timers) = 1
    /\ state.isPlaying
    /\ state.currentPosition = 3
    /\ Len(gridTimers) = 1

\* the grid editor rests as stopPlayback leaves it
Stopped ==
    /\ ~state.isPlaying
    /\ state.currentPosition = 0
    /\ playIntervalRef = 0
    /\ gridTimers = <<>>

\* C18: stop() is idempotent: whatever the state it is called in, it leaves
\* playback stopped with the cursor at 0 and no timer, so that calling it
\* twice leaves what calling it once leaves; called when already stopped,
\* also before any start, it changes nothing.
C18_StopIdempotent ==
    [][gridCall' = "stop" =>
          /\ Stopped'
          /\ state'.bpm = state.bpm
          /\ Stopped => UNCHANGED <<state, playIntervalRef, gridTimers>>
    ]_vars

\* Stop was pressed, after the tempo was set to 60
C18_Witness ==
    /\ gridCall = "stop"
    /\ Stopped
    /\ state.bpm = 60

\* C19: playback has only the states Stopped and Playing: every control that
\* leaves Playing resets the cursor to 0, so in no reachable state is
\* playback off and the cursor not 0.
C19_NoPausedState ==
    ~state.isPlaying => state.currentPosition = 0

\* no note of the store has the id
Unknown(id) == \A k \in 1..Len(notes) : notes[k].id # id

\* C21: remove and moveTo applied to an id that no note in the store has
\* (the Delete key on a selection that was cleared or replaced by an import,
\* a drag of a note that was deleted during the drag) leave the store exactly
\* unchanged and raise no error.
C21_UnknownIdNoOp ==
    [][/\ (KeyDelete /\ Unknown(selectedRef)) => notes' = notes
       /\ (MouseMove /\ Unknown(dragInfo.noteId)) => notes' = notes
    ]_vars

\* a note is being dragged that the store no longer holds, and the selection
\* names a note that is gone too, while the store is not empty
C21_Witness ==
    /\ dragInfo.isDragging
    /\ Unknown(dragInfo.noteId)
    /\ selectedRef # NoId
    /\ Unknown(selectedRef)
    /\ Len(notes) > 0

\* C22: once a note is added, the lookup at its pitch and at any tick t with
\* tick <= t < tick + length returns that very note, also when other notes
\* of the same pitch overlap it, and a lookup at t = tick + length or at
\* another pitch does not return it. The lookup is notes.find of the mouse
\* handlers, a pointer position standing for the pitch and tick the handlers
\* derive from it.
C22_FindAt ==
    \A k \in 1..Len(notes) : \A x \in XSet : \A y \in YSet :
        LET gridX == x - pianoWidth
            t == tickAt(gridX)
            midi == topMidi - keyIndexAt(y)
        IN  /\ (/\ midi = notes[k].midi
                /\ t >= notes[k].tick
                /\ t < notes[k].tick + notes[k].length)
                  => findIndex(gridX, y) = k
            /\ (midi # notes[k].midi \/ t = notes[k].tick + notes[k].length)
                  => findIndex(gridX, y) # k

(***************************************************************************)
(* Grid snapping, on ticks of its own and in the editor                    *)
(***************************************************************************)
\* the ticks snapped: the first two grid cells whole, and the end of the roll
SnapTicks == (0..MaxSnapTick) \cup {7679, 7680, 7681}

InitSnap ==
    /\ notes = <<>>
    /\ InitEditor
    /\ InitPlay
    /\ InitSynth
    /\ InitGrid
    /\ midiData = <<>>
    /\ callArgs = NoArgs
    /\ lastCall = NoCall
    /\ vlqIn = 0
    /\ vlqOut = <<>>
    /\ snapIn \in SnapTicks
    /\ snapOut = -1
    /\ scrollOffset = 24

\* the tick is snapped
SnapTick ==
    /\ snapOut = -1
    /\ snapOut' = snapToGrid(snapIn)
    /\ UNCHANGED <<notes, editorVars, writerVars, vlqVars, playVars, synthVars,
                   gridVars, snapIn, scrollOffset>>

\* the snapped tick is handed in again
SnapAgain ==
    /\ snapOut # -1
    /\ snapIn' = snapOut
    /\ snapOut' = -1
    /\ UNCHANGED <<notes, editorVars, writerVars, vlqVars, playVars, synthVars,
                   gridVars, scrollOffset>>

\* the editor is used in the behaviours that start with tick 0 unsnapped
NextSnap ==
    \/ SnapTick
    \/ SnapAgain
    \/ (snapIn = 0 /\ snapOut = -1 /\ Edit)

SpecSnap == InitSnap /\ [][NextSnap]_vars

\* C23: grid snapping floors: the snapped tick is the greatest multiple of
\* PPQ / 4 that is <= the tick, so snapping a snapped tick gives it back, for
\* every tick >= 0; every note created by a click or moved by a drag starts
\* on a multiple of PPQ / 4.
C23_SnapFloors ==
    [][/\ snapOut' # -1 =>
            /\ snapOut' % (PPQ \div 4) = 0
            /\ snapOut' <= snapIn'
            /\ snapIn' < snapOut' + PPQ \div 4
            /\ snapToGrid(snapOut') = snapOut'
       /\ (snapIn' = snapOut /\ snapOut # -1) => snapToGrid(snapIn') = snapIn'
       /\ \A k \in 1..Len(notes') :
            notes'[k].id.kind = "click" => notes'[k].tick % (PPQ \div 4) = 0
       /\ MouseMove =>
            \A k \in 1..Len(notes) :
                notes[k].id = dragInfo.noteId => notes'[k].tick % (PPQ \div 4) = 0
    ]_vars

\* tick 239 was snapped to 120
C23_Witness ==
    /\ snapIn = 239
    /\ snapOut = 120

\* writeMidi was called twice in a row with the same note list, ppq and bpm
CalledTwice ==
    /\ lastCall.data # <<>>
    /\ lastCall.args = callArgs

C30_OffBeforeOn ==
    Exported =>
        \A i \in 1..Len(callArgs.notes) : \A j \in 1..Len(callArgs.notes) :
            LET early == callArgs.notes[i]
                late == callArgs.notes[j]
            IN  (/\ i # j
                 /\ early.midi = late.midi
                 /\ early.tick + early.length = late.tick)
                  => \E a \in 1..Len(TimedChannelEvents) :
                       \E b \in 1..Len(TimedChannelEvents) :
                         /\ a < b
                         /\ TimedChannelEvents[a] =
                              <<late.tick, <<128, early.midi % 128, 64>> >>
                         /\ TimedChannelEvents[b] =
                              <<late.tick, <<144, late.midi % 128, late.vel % 128>> >>

(***************************************************************************)
(* The synthetic start ticks of an import                                  *)
(***************************************************************************)
\* C26: the k-th note an import recovers (k = 0, 1, 2, ...) starts at tick
\* k * (PPQ/8) and has length PPQ/4: the tick advances once per accepted
\* note-on, and a rejected note-on (velocity 0, pitch outside 21..108) does
\* not advance it.
C26_TickPerAccepted ==
    (ReadDone /\ alertMsg.kind = "imported") =>
        \A k \in 1..Len(notes) :
            /\ notes[k].tick = (k - 1) * (PPQ \div 8)
            /\ notes[k].length = PPQ \div 4

(***************************************************************************)
(* Dragging at the ends of the key range: the view is scrolled first       *)
(***************************************************************************)
\* handleCanvasWheel: the view scrolls by three rows, within 0..52
Wheel ==
    /\ \E sign \in {-1, 1} :
         scrollOffset' = Max(0, Min(totalKeys - keyCount, scrollOffset + sign * 3))
    /\ UNCHANGED <<notes, editorVars, writerVars, vlqVars,
                   playVars, synthVars, gridVars, snapVars>>

\* pointer heights in the top row and in the third row of the canvas
EdgeYSet == {5, 29}

\* the view is scrolled while the store is empty, then notes are placed and
\* dragged in the top rows
NextMove ==
    \/ (notes = <<>> /\ Wheel)
    \/ \E x \in XSet, y \in EdgeYSet : MouseDownCreateAt(x, y)
    \/ \E x \in XSet, y \in EdgeYSet : MouseDownOnNoteAt(x, y)
    \/ \E x \in XSet, y \in EdgeYSet : MouseMoveAt(x, y)
    \/ MouseUp
    \/ ClockTick

SpecMove == Init /\ [][NextMove]_vars

\* a drag step leaves the store as it was but for the start tick and the
\* pitch of the notes with the dragged id, whose pitch is the requested one
\* clamped to lo..hi
MovesWithin(lo, hi) ==
    \A x \in XSet, y \in EdgeYSet :
        MouseMoveAt(x, y) =>
            /\ Len(notes') = Len(notes)
            /\ \A k \in 1..Len(notes) :
                 IF notes[k].id = dragInfo.noteId
                 THEN /\ notes'[k].id = notes[k].id
                      /\ notes'[k].length = notes[k].length
                      /\ notes'[k].vel = notes[k].vel
                      /\ notes'[k].midi =
                           Max(lo, Min(hi, dragInfo.originalMidi + midiDeltaAt(y)))
                 ELSE notes'[k] = notes[k]

\* C27 as stated: a move changes only the start tick and the pitch of the
\* identified note, the new pitch being the requested one clamped to
\* [0,127], so that a requested pitch inside [0,127] is stored as requested;
\* id, length, velocity, the other notes and the order are unchanged.
C27_MoveClampsTo127 ==
    [][MovesWithin(0, 127)]_vars

\* C27 amended: a move changes only the start tick and the pitch of the
\* identified note, the new pitch being the requested one clamped to
\* [21,108], so that a requested pitch inside [21,108] is stored as
\* requested; id, length, velocity, the other notes and the order are
\* unchanged.
C27_MoveClampsToKeys ==
    [][MovesWithin(21, 108)]_vars

\* with the view scrolled to the top, a note picked up at pitch 106 in the
\* third row was dragged three rows up and stands at 108
C27_Witness ==
    /\ scrollOffset = 0
    /\ dragInfo.isDragging
    /\ dragInfo.originalMidi = 106
    /\ \E k \in 1..Len(notes) :
         /\ notes[k].id = dragInfo.noteId
         /\ notes[k].midi = 108

(***************************************************************************)
(* The playing flag and the transport                                      *)
(***************************************************************************)
\* C29: in every reachable state the playing flag agrees with the
\* transport: isPlaying is true exactly when the transport is running and a
\* cursor poll timer is set, after any sequence of play, stop, clear and
\* instrument-switch actions.
C29_FlagAgrees ==
    isPlaying <=> (transportState = "started" /\ timelineRef # 0 /\ timers # <<>>)

(***************************************************************************)
(* src/lib/ai-suggestions.ts : AINoteSuggester                             *)
(* A grid note is [id, pitch, start, duration, velocity].                  *)
(***************************************************************************)
MAJOR_SCALE == <<0, 2, 4, 5, 7, 9, 11>>
MINOR_SCALE == <<0, 2, 3, 5, 7, 8, 10>>

\* scale.indexOf(v): the 0-based index of v, -1 when v is not in the scale
indexOf(scale, v) ==
    IF \E i \in 1..Len(scale) : scale[i] = v
    THEN (CHOOSE i \in 1..Len(scale) : scale[i] = v) - 1
    ELSE -1

\* one step of the sort by start: n goes behind the notes that start no later
RECURSIVE insertByStart(_, _)
insertByStart(sorted, n) ==
    IF sorted = <<>> THEN <<n>>
    ELSE IF sorted[Len(sorted)].start <= n.start THEN Append(sorted, n)
    ELSE Append(insertByStart(SubSeq(sorted, 1, Len(sorted) - 1), n),
                sorted[Len(sorted)])

\* notes.sort((a, b) => a.start - b.start): the array after the call, which
\* sorts it in place and keeps the order of notes with equal start
RECURSIVE sortByStart(_)
sortByStart(ns) ==
    IF ns = <<>> THEN <<>>
    ELSE insertByStart(sortByStart(SubSeq(ns, 1, Len(ns) - 1)), ns[Len(ns)])

\* getLastNotes: the caller's array after the call
sortedInPlace(ns) ==
    sortByStart(ns)

\* getLastNotes(notes, count): the value returned, .slice(-count) of the
\* sorted array
getLastNotes(ns, count) ==
    LET sorted == sortByStart(ns)
    IN  SubSeq(sorted, Max(1, Len(sorted) - count + 1), Len(sorted))

\* noteCounts[pitchClass] || 0
noteCount(ns, pc) ==
    Cardinality({k \in 1..Len(ns) : ns[k].pitch % 12 = pc})

\* analyzeKey: the reduce over the entries in ascending key order keeps the
\* later entry on a tie, so the key is the highest of the most common pitch
\* classes; minor when the minor third is counted more often than the major
analyzeKey(ns) ==
    IF Len(ns) = 0 THEN [key |-> 60, isMinor |-> FALSE]
    ELSE LET best == {pc \in 0..11 :
                        /\ noteCount(ns, pc) > 0
                        /\ \A q \in 0..11 : noteCount(ns, q) <= noteCount(ns, pc)}
             key == CHOOSE pc \in best : \A q \in best : q <= pc
         IN  [key |-> key,
              isMinor |-> noteCount(ns, (key + 3) % 12) > noteCount(ns, (key + 4) % 12)]

scaleOf(isMinor) ==
    IF isMinor THEN MINOR_SCALE ELSE MAJOR_SCALE

\* generateMelodyPattern at clock value t; rs[i] stands for the whole part of
\* Math.random() * 20 in the velocity of the i-th move
generateMelodyPattern(lastNotes, key, isMinor, nextPosition, t, rs) ==
    IF Len(lastNotes) = 0
    THEN <<[id |-> [kind |-> "ai", at |-> t, i |-> 1], pitch |-> 60 + key,
            start |-> nextPosition, duration |-> 1, velocity |-> 80]>>
    ELSE LET scale == scaleOf(isMinor)
             lastNote == lastNotes[Len(lastNotes)]
             currentScaleIndex == indexOf(scale, ((lastNote.pitch % 12) - key + 12) % 12)
             possibleMoves ==
                 SelectSeq(<<currentScaleIndex + 1, currentScaleIndex - 1,
                             currentScaleIndex + 2, currentScaleIndex - 2, 0>>,
                           LAMBDA index : index >= 0 /\ index < Len(scale))
             made == [i \in 1..Len(possibleMoves) |->
                        [id |-> [kind |-> "ai", at |-> t, i |-> i - 1],
                         pitch |-> (lastNote.pitch \div 12) * 12 + key
                                     + scale[possibleMoves[i] + 1],
                         start |-> nextPosition, duration |-> 1,
                         velocity |-> Max(60, lastNote.velocity - 10 + rs[i - 1])]]
             suggestions == SelectSeq(made, LAMBDA n : n.pitch >= 48 /\ n.pitch <= 84)
         IN  SubSeq(suggestions, 1, Min(3, Len(suggestions)))

\* the third above a note in the scale of the key
thirdPitch(note, key, isMinor) ==
    LET scale == scaleOf(isMinor)
        scaleIndex == indexOf(scale, ((note.pitch % 12) - key + 12) % 12)
    IN  (note.pitch \div 12) * 12 + key + scale[((scaleIndex + 2) % Len(scale)) + 1]

\* generateHarmonyPattern at clock value t: a third above every note that
\* sounds at the position, is in the scale and whose third is in 48..84
generateHarmonyPattern(ns, key, isMinor, nextPosition, t) ==
    LET currentNotes == SelectSeq(ns, LAMBDA n :
                            n.start <= nextPosition /\ n.start + n.duration > nextPosition)
        pushed == SelectSeq([i \in 1..Len(currentNotes) |-> i], LAMBDA i :
                      /\ indexOf(scaleOf(isMinor),
                                 ((currentNotes[i].pitch % 12) - key + 12) % 12) # -1
                      /\ thirdPitch(currentNotes[i], key, isMinor) # currentNotes[i].pitch
                      /\ thirdPitch(currentNotes[i], key, isMinor) >= 48
                      /\ thirdPitch(currentNotes[i], key, isMinor) <= 84)
    IN  [j \in 1..Len(pushed) |->
            [id |-> [kind |-> "ai-harmony", at |-> t, i |-> pushed[j] - 1],
             pitch |-> thirdPitch(currentNotes[pushed[j]], key, isMinor),
             start |-> nextPosition,
             duration |-> currentNotes[pushed[j]].duration,
             velocity |-> Max(50, currentNotes[pushed[j]].velocity - 20)]]

\* Math.max(...notes.map(n => n.start + n.duration)), 0 for no notes
lastEnd(ns) ==
    IF Len(ns) = 0 THEN 0
    ELSE CHOOSE e \in {ns[k].start + ns[k].duration : k \in 1..Len(ns)} :
            \A k \in 1..Len(ns) : ns[k].start + ns[k].duration <= e

\* generateSuggestions: the list returned; confidence in hundredths
generateSuggestions(ns, currentPosition, t, rs) ==
    LET lastNotes == getLastNotes(ns, 4)
        k == analyzeKey(ns)
        nextPosition == Max(currentPosition + 1, lastEnd(ns))
        melodySuggestions ==
            generateMelodyPattern(lastNotes, k.key, k.isMinor, nextPosition, t, rs)
        harmonySuggestions ==
            generateHarmonyPattern(ns, k.key, k.isMinor, currentPosition, t)
    IN  (IF Len(melodySuggestions) > 0
         THEN <<[notes |-> melodySuggestions, confidence |-> 80, style |-> "melody"]>>
         ELSE <<>>)
        \o
        (IF Len(harmonySuggestions) > 0
         THEN <<[notes |-> harmonySuggestions, confidence |-> 70, style |-> "harmony"]>>
         ELSE <<>>)

(***************************************************************************)
(* The grid editor: notes, clicks and suggestions                          *)
(***************************************************************************)
MaxGridNotes == 5
MaxGridSeq == 3

\* the columns and rows clicked: D4 (row 9) and C4 (row 11)
GridXs == {0, 1}
GridYs == {9, 11}
\* whole parts of Math.random() * 20
RandSet == {0, 19}

\* pianoKeys[y].midiNote of generatePianoKeys(2, 3): octaves 2 to 4, reversed
pitchOfRow(y) ==
    71 - y

\* the notes of the store in a cell
inCell(ns, pitch, x) ==
    {k \in 1..Len(ns) : ns[k].pitch = pitch /\ ns[k].start = x}

\* removeNote: prev.notes.filter(note => note.id !== noteId)
removeNote(ns, noteId) ==
    SelectSeq(ns, LAMBDA n : n.id # noteId)

\* addNote(pitch, start) at clock value t with the random number r in the id
addNote(ns, pitch, start, t, r) ==
    Append(ns, [id |-> [kind |-> "note", at |-> t, i |-> r],
                pitch |-> pitch, start |-> start, duration |-> 1, velocity |-> 80])

\* handleGridClick(x, y), called by handleMouseDown of a cell: the first note
\* found in the cell is removed by its id, else a note is added
handleGridClickAt(x, y) ==
    /\ y \in 0..35
    /\ LET pitch == pitchOfRow(y)
           found == inCell(state.notes, pitch, x)
       IN  IF found # {}
           THEN /\ state' = [state EXCEPT !.notes =
                      removeNote(state.notes,
                                 state.notes[CHOOSE k \in found : \A j \in found : k <= j].id)]
                /\ gridSeq' = gridSeq
           ELSE /\ Len(state.notes) < MaxGridNotes
                /\ gridSeq < MaxGridSeq
                /\ state' = [state EXCEPT !.notes =
                                addNote(state.notes, pitch, x, now, gridSeq)]
                /\ gridSeq' = gridSeq + 1
    /\ gridCall' = "click"
    /\ UNCHANGED <<notes, editorVars, writerVars, vlqVars, playVars, synthVars,
                   playIntervalRef, gridTimers, aiSuggestions, showSuggestions,
                   snapVars, scrollOffset>>

handleGridClick ==
    \E x \in GridXs, y \in GridYs : handleGridClickAt(x, y)

\* generateAISuggestions, the AI Suggest button: the generator is handed
\* state.notes itself, which getLastNotes sorts in place
generateAISuggestions ==
    /\ \E rs \in [0..4 -> RandSet] :
         aiSuggestions' = generateSuggestions(state.notes, state.currentPosition, now, rs)
    /\ state' = [state EXCEPT !.notes = sortedInPlace(state.notes)]
    /\ showSuggestions' = TRUE
    /\ gridCall' = "suggest"
    /\ UNCHANGED <<notes, editorVars, writerVars, vlqVars, playVars, synthVars,
                   playIntervalRef, gridTimers, gridSeq, snapVars, scrollOffset>>

\* applySuggestion, the Apply button of a suggestion shown
applySuggestion ==
    /\ showSuggestions
    /\ \E k \in 1..Len(aiSuggestions) :
         /\ Len(state.notes) + Len(aiSuggestions[k].notes) <= MaxGridNotes
         /\ state' = [state EXCEPT !.notes = state.notes \o aiSuggestions[k].notes]
    /\ showSuggestions' = FALSE
    /\ gridCall' = "apply"
    /\ UNCHANGED <<notes, editorVars, writerVars, vlqVars, playVars, synthVars,
                   playIntervalRef, gridTimers, aiSuggestions, gridSeq,
                   snapVars, scrollOffset>>

\* clearAll, the Clear All button
clearAll ==
    /\ state' = [state EXCEPT !.notes = <<>>]
    /\ aiSuggestions' = <<>>
    /\ showSuggestions' = FALSE
    /\ gridCall' = "clear"
    /\ UNCHANGED <<notes, editorVars, writerVars, vlqVars, playVars, synthVars,
                   playIntervalRef, gridTimers, gridSeq, snapVars, scrollOffset>>

\* suggestions are asked for while none are held: once, and again after
\* Clear All
NextGridNotes ==
    \/ handleGridClick
    \/ (aiSuggestions = <<>> /\ generateAISuggestions)
    \/ applySuggestion
    \/ clearAll
    \/ ClockTick

SpecGridNotes == Init /\ [][NextGridNotes]_vars

\* the cells that hold a note
occupied(ns) ==
    {<<ns[k].pitch, ns[k].start>> : k \in 1..Len(ns)}

\* C25: a click on a cell with no note at that (pitch, start) adds exactly
\* one note there, and a click on a cell that has a note there removes it so
\* that the cell is empty afterwards (two clicks on a cell restore the set
\* of occupied cells), after any sequence of clicks and applied suggestions;
\* no other cell changes.
C25_ClickToggles ==
    [][\A x \in GridXs, y \in GridYs :
          handleGridClickAt(x, y) =>
              LET cell == <<pitchOfRow(y), x>>
                  before == inCell(state.notes, pitchOfRow(y), x)
                  after == inCell(state'.notes, pitchOfRow(y), x)
              IN  /\ before = {} => Cardinality(after) = 1
                  /\ before # {} => after = {}
                  /\ occupied(state'.notes) \ {cell} = occupied(state.notes) \ {cell}]_vars

\* C28: the generator leaves the note list it is handed unchanged, the order
\* of its elements included, and every suggestion it returns has a
\* confidence in [0,1] (in hundredths, 0..100).
C28_GeneratorPure ==
    [][generateAISuggestions =>
          /\ state'.notes = state.notes
          /\ \A k \in 1..Len(aiSuggestions') :
               aiSuggestions'[k].confidence \in 0..100]_vars

====
